---------------------------- MODULE Spec2Model ----------------------------
(***************************************************************************)
(* A model of the DPA analyzer (src/dpa_analyzer.py, src/knowledge_base.py, *)
(* src/main.py): the analysis pipeline of DPAAnalyzer.analyze_document,     *)
(* the parsing of the model's response text in _call_ollama_api, and the    *)
(* rule-based scorer _fallback_analysis.                                    *)
(*                                                                         *)
(* A Python str is a sequence of one-character strings.  A Python value    *)
(* (the result of json.loads, a dict literal of the code) is a record with  *)
(* a type tag, see the section "Python values".                             *)
(***************************************************************************)
EXTENDS Integers, Sequences, FiniteSets, TLC

(***************************************************************************)
(* Strings                                                                 *)
(***************************************************************************)

Min(a, b) == IF a <= b THEN a ELSE b

Max(a, b) == IF a >= b THEN a ELSE b

\* The upper-case letters and their lower-case forms (str.lower, str.title).
UpperOf ==
  [c \in {"a","b","c","d","e","f","g","h","i","j","k","l","m","n","o","p","q",
          "r","s","t","u","v","w","x","y","z"} |->
     CASE c = "a" -> "A" [] c = "b" -> "B" [] c = "c" -> "C" [] c = "d" -> "D"
       [] c = "e" -> "E" [] c = "f" -> "F" [] c = "g" -> "G" [] c = "h" -> "H"
       [] c = "i" -> "I" [] c = "j" -> "J" [] c = "k" -> "K" [] c = "l" -> "L"
       [] c = "m" -> "M" [] c = "n" -> "N" [] c = "o" -> "O" [] c = "p" -> "P"
       [] c = "q" -> "Q" [] c = "r" -> "R" [] c = "s" -> "S" [] c = "t" -> "T"
       [] c = "u" -> "U" [] c = "v" -> "V" [] c = "w" -> "W" [] c = "x" -> "X"
       [] c = "y" -> "Y" [] c = "z" -> "Z"]

LowerLetters == DOMAIN UpperOf

UpperLetters == {UpperOf[c] : c \in LowerLetters}

LowerChar(c) ==
  IF c \in UpperLetters THEN CHOOSE l \in LowerLetters : UpperOf[l] = c ELSE c

UpperChar(c) == IF c \in LowerLetters THEN UpperOf[c] ELSE c

IsLetter(c) == c \in LowerLetters \cup UpperLetters

\* str.lower()
Lower(s) == [i \in 1..Len(s) |-> LowerChar(s[i])]

\* str.title(): a letter that follows a non-letter is upper-cased, every
\* other letter is lower-cased.
Title(s) ==
  [i \in 1..Len(s) |->
     IF i = 1 \/ ~IsLetter(s[i-1]) THEN UpperChar(s[i]) ELSE LowerChar(s[i])]

\* str.endswith(suffix)
EndsWith(s, suffix) ==
  /\ Len(suffix) <= Len(s)
  /\ SubSeq(s, Len(s) - Len(suffix) + 1, Len(s)) = suffix

\* `sub in s` for two strings
Contains(s, sub) ==
  \E i \in 0..(Len(s) - Len(sub)) : \A j \in 1..Len(sub) : s[i + j] = sub[j]

\* s[a:b] for 0 <= a and 0 <= b (Python's 0-based, end-exclusive slice)
Slice(s, a, b) == SubSeq(s, a + 1, Min(b, Len(s)))

\* Python's whitespace as far as the model's characters go
PyWhitespace == {" ", "\n", "\t", "\r"}

RECURSIVE LStrip(_)
LStrip(s) ==
  IF s # <<>> /\ Head(s) \in PyWhitespace THEN LStrip(Tail(s)) ELSE s

RECURSIVE RStrip(_)
RStrip(s) ==
  IF s # <<>> /\ s[Len(s)] \in PyWhitespace
    THEN RStrip(SubSeq(s, 1, Len(s) - 1))
    ELSE s

\* str.strip()
Strip(s) == RStrip(LStrip(s))

\* str.find(c): the 0-based index of the first c, or -1
Find(s, c) ==
  IF \E i \in 1..Len(s) : s[i] = c
    THEN (CHOOSE i \in 1..Len(s) : s[i] = c /\ \A j \in 1..(i-1) : s[j] # c) - 1
    ELSE -1

\* str.rfind(c): the 0-based index of the last c, or -1
RFind(s, c) ==
  IF \E i \in 1..Len(s) : s[i] = c
    THEN (CHOOSE i \in 1..Len(s) : s[i] = c /\ \A j \in (i+1)..Len(s) : s[j] # c) - 1
    ELSE -1

\* str.replace('\n', ' ')
ReplaceNewlines(s) == [i \in 1..Len(s) |-> IF s[i] = "\n" THEN " " ELSE s[i]]

\* str.replace('  ', ' '): the non-overlapping occurrences of two spaces,
\* found left to right, each become one space.  Of a run of spaces the
\* second, the fourth, ... are the ones dropped.
ReplaceDoubleSpaces(s) ==
  LET RunStart(i) ==
        CHOOSE j \in 1..i :
          /\ \A k \in j..i : s[k] = " "
          /\ j = 1 \/ s[j - 1] # " "
      Dropped(i) == s[i] = " " /\ (i - RunStart(i)) % 2 = 1
      kept == SelectSeq([i \in 1..Len(s) |-> i], LAMBDA i : ~Dropped(i))
  IN [k \in 1..Len(kept) |-> s[kept[k]]]

Digits == <<"0","1","2","3","4","5","6","7","8","9">>

DigitChars == {Digits[i] : i \in 1..10}

DigitValue(c) == (CHOOSE i \in 1..10 : Digits[i] = c) - 1

\* str(n) for n >= 0
RECURSIVE IntToStr(_)
IntToStr(n) ==
  IF n < 10 THEN <<Digits[n + 1]>> ELSE IntToStr(n \div 10) \o <<Digits[(n % 10) + 1]>>


(***************************************************************************)
(* Python values                                                           *)
(*                                                                         *)
(* Every value is a record of the same shape: t is the type, n the number  *)
(* of an int (the digits of a float, 1 or 0 of a bool), x the power of ten *)
(* of a float, s the characters of a str (the name of nan and inf), a the  *)
(* items of a list, o the dict as a function from its keys to its values.  *)
(***************************************************************************)

PyValue(t, n, x, s, a, o) == [t |-> t, n |-> n, x |-> x, s |-> s, a |-> a, o |-> o]

PyNone == PyValue("NoneType", 0, 0, <<>>, <<>>, <<>>)

PyBool(b) == PyValue("bool", IF b THEN 1 ELSE 0, 0, <<>>, <<>>, <<>>)

PyInt(n) == PyValue("int", n, 0, <<>>, <<>>, <<>>)

PyFloat(n, x) == PyValue("float", n, x, <<>>, <<>>, <<>>)

PyFloatNamed(name) == PyValue("float", 0, 0, name, <<>>, <<>>)

PyStr(s) == PyValue("str", 0, 0, s, <<>>, <<>>)

PyList(a) == PyValue("list", 0, 0, <<>>, a, <<>>)

PyDict(o) == PyValue("dict", 0, 0, <<>>, <<>>, o)

\* d.setdefault(k, v), a variant that keeps the value d has for k
SetDefault(d, k, v) == PyDict(d.o @@ (k :> v))

\* d[k] = v on a dict d
SetItem(d, k, v) == PyDict((k :> v) @@ d.o)

HasKey(d, k) == d.t = "dict" /\ k \in DOMAIN d.o

(***************************************************************************)
(* json.loads                                                              *)
(*                                                                         *)
(* The decoder of Python's json module (json.decoder, json.scanner) with   *)
(* its defaults (strict), on texts that hold no backslash.  Positions are  *)
(* 1-based; a scan returns whether it succeeded, the value and the         *)
(* position after it.                                                      *)
(***************************************************************************)

JsonWhitespace == {" ", "\t", "\n", "\r"}

ScanFail == [ok |-> FALSE, v |-> PyNone, e |-> 0]

ScanOk(v, e) == [ok |-> TRUE, v |-> v, e |-> e]

At(s, i) == IF i >= 1 /\ i <= Len(s) THEN s[i] ELSE ""

\* the first position from i on that holds no whitespace
RECURSIVE SkipWs(_, _)
SkipWs(s, i) == IF At(s, i) \in JsonWhitespace THEN SkipWs(s, i + 1) ELSE i

\* the first position from i on that holds no digit
RECURSIVE SkipDigits(_, _)
SkipDigits(s, i) == IF At(s, i) \in DigitChars THEN SkipDigits(s, i + 1) ELSE i

\* int() of a string of digits
RECURSIVE DigitsToInt(_)
DigitsToInt(d) ==
  IF d = <<>> THEN 0
  ELSE 10 * DigitsToInt(SubSeq(d, 1, Len(d) - 1)) + DigitValue(d[Len(d)])

\* py_scanstring from the position after the opening quote: the characters
\* up to the closing quote; a control character ends the scan in an error.
RECURSIVE ScanString(_, _, _)
ScanString(s, i, acc) ==
  LET c == At(s, i) IN
  IF c = "\"" THEN ScanOk(PyStr(acc), i + 1)
  ELSE IF c \in {"", "\n", "\t", "\r", "\\"} THEN ScanFail
  ELSE ScanString(s, i + 1, Append(acc, c))

\* NUMBER_RE, (-?(?:0|[1-9]\d*))(\.\d+)?([eE][-+]?\d+)?, matched at i
ScanNumber(s, i) ==
  LET neg    == At(s, i) = "-"
      i0     == IF neg THEN i + 1 ELSE i
      intEnd == IF At(s, i0) = "0" THEN i0 + 1 ELSE SkipDigits(s, i0)
      hasFrac == At(s, intEnd) = "." /\ At(s, intEnd + 1) \in DigitChars
      fracEnd == IF hasFrac THEN SkipDigits(s, intEnd + 1) ELSE intEnd
      signed  == At(s, fracEnd + 1) \in {"-", "+"}
      expAt   == IF signed THEN fracEnd + 2 ELSE fracEnd + 1
      hasExp  == At(s, fracEnd) \in {"e", "E"} /\ At(s, expAt) \in DigitChars
      expEnd  == IF hasExp THEN SkipDigits(s, expAt) ELSE fracEnd
      sign    == IF neg THEN -1 ELSE 1
      intPart == DigitsToInt(SubSeq(s, i0, intEnd - 1))
      fracDigits == SubSeq(s, intEnd + 1, fracEnd - 1)
      mant    == DigitsToInt(SubSeq(s, i0, intEnd - 1) \o fracDigits)
      expo    == IF hasExp
                   THEN (IF At(s, fracEnd + 1) = "-" THEN -1 ELSE 1)
                          * DigitsToInt(SubSeq(s, expAt, expEnd - 1))
                   ELSE 0
  IN
  IF intEnd = i0 THEN ScanFail
  ELSE IF hasFrac \/ hasExp
    THEN ScanOk(PyFloat(sign * mant, expo - Len(fracDigits)), expEnd)
    ELSE ScanOk(PyInt(sign * intPart), intEnd)

StartsAt(s, i, word) ==
  /\ i + Len(word) - 1 <= Len(s)
  /\ SubSeq(s, i, i + Len(word) - 1) = word

RECURSIVE ScanOnce(_, _)
RECURSIVE ParseMembers(_, _, _)
RECURSIVE ParseElements(_, _, _)

\* JSONObject, after a value: at "," the next key's opening quote is due
MemberQuote(s, pairs, quote) ==
  IF At(s, quote) # "\"" THEN ScanFail ELSE ParseMembers(s, quote + 1, pairs)

\* JSONObject, after a value: "}" ends the object, "," goes on
MemberNext(s, pairs, next) ==
  IF At(s, next) = "}" THEN ScanOk(PyDict(pairs), next + 1)
  ELSE IF At(s, next) # "," THEN ScanFail
  ELSE MemberQuote(s, pairs, SkipWs(s, next + 1))

\* JSONObject, the value of key k scanned: a key met again takes the later
\* value
MemberValue(s, k, val, acc) ==
  IF ~val.ok THEN ScanFail
  ELSE MemberNext(s, (k :> val.v) @@ acc, SkipWs(s, val.e))

\* JSONObject, after the key k: ":" and the value
MemberColon(s, k, colon, acc) ==
  IF At(s, colon) # ":" THEN ScanFail
  ELSE MemberValue(s, k, ScanOnce(s, SkipWs(s, colon + 1)), acc)

MemberKey(s, key, acc) ==
  IF ~key.ok THEN ScanFail ELSE MemberColon(s, key.v.s, SkipWs(s, key.e), acc)

\* the members of an object from the position after a key's opening quote
ParseMembers(s, i, acc) == MemberKey(s, ScanString(s, i, <<>>), acc)

ObjectStart(s, e1) ==
  IF At(s, e1) = "}" THEN ScanOk(PyDict(<<>>), e1 + 1)
  ELSE IF At(s, e1) # "\"" THEN ScanFail
  ELSE ParseMembers(s, e1 + 1, <<>>)

\* JSONObject from the position after "{"
JSONObject(s, end) == ObjectStart(s, SkipWs(s, end))

\* JSONArray, after a value: "]" ends the list, "," goes on
ElementNext(s, items, next) ==
  IF At(s, next) = "]" THEN ScanOk(PyList(items), next + 1)
  ELSE IF At(s, next) # "," THEN ScanFail
  ELSE ParseElements(s, SkipWs(s, next + 1), items)

ElementValue(s, val, acc) ==
  IF ~val.ok THEN ScanFail
  ELSE ElementNext(s, Append(acc, val.v), SkipWs(s, val.e))

\* the items of a list from the position of an item
ParseElements(s, i, acc) == ElementValue(s, ScanOnce(s, i), acc)

ArrayStart(s, e1) ==
  IF At(s, e1) = "]" THEN ScanOk(PyList(<<>>), e1 + 1)
  ELSE ParseElements(s, e1, <<>>)

\* JSONArray from the position after "["
JSONArray(s, end) == ArrayStart(s, SkipWs(s, end))

\* scan_once: the value that starts at position i
ScanOnce(s, i) ==
  LET c == At(s, i) IN
  CASE c = "\"" -> ScanString(s, i + 1, <<>>)
    [] c = "{" -> JSONObject(s, i + 1)
    [] c = "[" -> JSONArray(s, i + 1)
    [] c = "n" /\ StartsAt(s, i, <<"n","u","l","l">>) -> ScanOk(PyNone, i + 4)
    [] c = "t" /\ StartsAt(s, i, <<"t","r","u","e">>) -> ScanOk(PyBool(TRUE), i + 4)
    [] c = "f" /\ StartsAt(s, i, <<"f","a","l","s","e">>) -> ScanOk(PyBool(FALSE), i + 5)
    [] c = "N" /\ StartsAt(s, i, <<"N","a","N">>) ->
         ScanOk(PyFloatNamed(<<"n","a","n">>), i + 3)
    [] c = "I" /\ StartsAt(s, i, <<"I","n","f","i","n","i","t","y">>) ->
         ScanOk(PyFloatNamed(<<"i","n","f">>), i + 8)
    [] c = "-" /\ StartsAt(s, i, <<"-","I","n","f","i","n","i","t","y">>) ->
         ScanOk(PyFloatNamed(<<"-","i","n","f">>), i + 9)
    [] OTHER -> ScanNumber(s, i)

\* JSONDecoder.decode: nothing but whitespace may follow the value
DecodeEnd(s, r) ==
  IF r.ok /\ SkipWs(s, r.e) > Len(s) THEN [ok |-> TRUE, v |-> r.v]
  ELSE [ok |-> FALSE, v |-> PyNone]

\* json.loads(s): ok is FALSE where it raises json.JSONDecodeError
JsonLoads(s) == DecodeEnd(s, ScanOnce(s, SkipWs(s, 1)))


(***************************************************************************)
(* The string literals of src/dpa_analyzer.py, as sequences of characters. *)
(* The three characters before the text of a finding, U+00E2, U+0153 and   *)
(* U+201C in the source file, are written "U+00E2", "U+0153", "U+201C".    *)
(***************************************************************************)

K_overall_assessment ==
  <<"o","v","e","r","a","l","l","_","a","s","s","e","s","s","m","e","n","t">>


K_compliance_score ==
  <<"c","o","m","p","l","i","a","n","c","e","_","s","c","o","r","e">>


K_risk_level ==
  <<"r","i","s","k","_","l","e","v","e","l">>


K_executive_summary ==
  <<"e","x","e","c","u","t","i","v","e","_","s","u","m","m","a","r","y">>


K_section_analysis ==
  <<"s","e","c","t","i","o","n","_","a","n","a","l","y","s","i","s">>


K_section ==
  <<"s","e","c","t","i","o","n">>


K_status ==
  <<"s","t","a","t","u","s">>


K_score ==
  <<"s","c","o","r","e">>


K_findings ==
  <<"f","i","n","d","i","n","g","s">>


K_recommendations ==
  <<"r","e","c","o","m","m","e","n","d","a","t","i","o","n","s">>


K_red_flags ==
  <<"r","e","d","_","f","l","a","g","s">>


K_missing_clauses ==
  <<"m","i","s","s","i","n","g","_","c","l","a","u","s","e","s">>


K_strengths ==
  <<"s","t","r","e","n","g","t","h","s">>


K_critical_issues ==
  <<"c","r","i","t","i","c","a","l","_","i","s","s","u","e","s">>


K_metadata ==
  <<"m","e","t","a","d","a","t","a">>


K_document_length ==
  <<"d","o","c","u","m","e","n","t","_","l","e","n","g","t","h">>


K_analysis_timestamp ==
  <<"a","n","a","l","y","s","i","s","_","t","i","m","e","s","t","a","m","p">>


K_analyzer_version ==
  <<"a","n","a","l","y","z","e","r","_","v","e","r","s","i","o","n">>


K_model_used ==
  <<"m","o","d","e","l","_","u","s","e","d">>


K_playbook_reference ==
  <<"p","l","a","y","b","o","o","k","_","r","e","f","e","r","e","n","c","e">>


K_sections_reviewed ==
  <<"s","e","c","t","i","o","n","s","_","r","e","v","i","e","w","e","d">>


K_playbook_version ==
  <<"p","l","a","y","b","o","o","k","_","v","e","r","s","i","o","n">>


K_response ==
  <<"r","e","s","p","o","n","s","e">>


S_low ==
  <<"l","o","w">>


S_medium ==
  <<"m","e","d","i","u","m">>


S_high ==
  <<"h","i","g","h">>


S_unclear ==
  <<"u","n","c","l","e","a","r">>


S_partial_review ==
  <<"p","a","r","t","i","a","l","_","r","e","v","i","e","w">>


S_compliant ==
  <<"c","o","m","p","l","i","a","n","t">>


S_non_compliant ==
  <<"n","o","n","_","c","o","m","p","l","i","a","n","t">>


S_version ==
  <<"1",".","0",".","0">>


S_degraded_summary ==
  <<"A","I"," ","a","n","a","l","y","s","i","s"," ","e","n","c","o","u","n",
    "t","e","r","e","d"," ","f","o","r","m","a","t","t","i","n","g"," ","i",
    "s","s","u","e","s",","," ","u","s","i","n","g"," ","f","a","l","l","b",
    "a","c","k"," ","a","s","s","e","s","s","m","e","n","t">>


S_ai_analysis ==
  <<"A","I"," ","A","n","a","l","y","s","i","s">>


S_degraded_finding ==
  <<"A","I"," ","g","e","n","e","r","a","t","e","d"," ","r","e","s","p","o",
    "n","s","e"," ","b","u","t"," ","w","i","t","h"," ","f","o","r","m","a",
    "t","t","i","n","g"," ","i","s","s","u","e","s">>


S_manual_review_recommended ==
  <<"M","a","n","u","a","l"," ","r","e","v","i","e","w"," ","r","e","c","o",
    "m","m","e","n","d","e","d">>


S_parsing_failed ==
  <<"A","I"," ","r","e","s","p","o","n","s","e"," ","p","a","r","s","i","n",
    "g"," ","f","a","i","l","e","d">>


S_processed_by_ai ==
  <<"D","o","c","u","m","e","n","t"," ","p","r","o","c","e","s","s","e","d",
    " ","b","y"," ","A","I">>


S_formatting_needs_improvement ==
  <<"R","e","s","p","o","n","s","e"," ","f","o","r","m","a","t","t","i","n",
    "g"," ","n","e","e","d","s"," ","i","m","p","r","o","v","e","m","e","n",
    "t">>


S_consider_upgrading ==
  <<"C","o","n","s","i","d","e","r"," ","u","p","g","r","a","d","i","n","g",
    " ","t","o"," ","l","a","r","g","e","r"," ","A","I"," ","m","o","d","e",
    "l">>


S_manual_legal_review_advised ==
  <<"M","a","n","u","a","l"," ","l","e","g","a","l"," ","r","e","v","i","e",
    "w"," ","a","d","v","i","s","e","d">>


S_automated_analysis ==
  <<"A","u","t","o","m","a","t","e","d"," ","A","n","a","l","y","s","i","s">>


S_complete_llm_setup ==
  <<"C","o","m","p","l","e","t","e"," ","L","L","M"," ","s","e","t","u","p",
    " ","f","o","r"," ","d","e","t","a","i","l","e","d"," ","a","n","a","l",
    "y","s","i","s">>


S_manual_legal_review_recommended ==
  <<"M","a","n","u","a","l"," ","l","e","g","a","l"," ","r","e","v","i","e",
    "w"," ","r","e","c","o","m","m","e","n","d","e","d">>


S_llm_unavailable_flag ==
  <<"L","L","M"," ","a","n","a","l","y","s","i","s"," ","u","n","a","v","a",
    "i","l","a","b","l","e"," ","-"," ","l","i","m","i","t","e","d"," ","a",
    "s","s","e","s","s","m","e","n","t"," ","p","e","r","f","o","r","m","e",
    "d">>


S_llm_service_unavailable ==
  <<"L","L","M"," ","s","e","r","v","i","c","e"," ","u","n","a","v","a","i",
    "l","a","b","l","e">>


S_manual_review_required ==
  <<"M","a","n","u","a","l"," ","r","e","v","i","e","w"," ","r","e","q","u",
    "i","r","e","d">>


S_set_up_ollama ==
  <<"S","e","t"," ","u","p"," ","O","l","l","a","m","a"," ","w","i","t","h",
    " ","L","l","a","m","a"," ","m","o","d","e","l"," ","f","o","r"," ","d",
    "e","t","a","i","l","e","d"," ","a","n","a","l","y","s","i","s">>


S_conduct_manual_review ==
  <<"C","o","n","d","u","c","t"," ","m","a","n","u","a","l"," ","l","e","g",
    "a","l"," ","r","e","v","i","e","w">>


S_verify_article_28 ==
  <<"V","e","r","i","f","y"," ","a","l","l"," ","G","D","P","R"," ","A","r",
    "t","i","c","l","e"," ","2","8"," ","r","e","q","u","i","r","e","m","e",
    "n","t","s">>


S_finding_prefix ==
  <<"U+00E2","U+0153","U+201C"," ">>


S_finding_suffix ==
  <<" ","p","r","o","v","i","s","i","o","n","s"," ","i","d","e","n","t","i",
    "f","i","e","d">>


S_summary_1 ==
  <<"R","u","l","e","-","b","a","s","e","d"," ","a","n","a","l","y","s","i",
    "s"," ","c","o","m","p","l","e","t","e","d","."," ">>


S_summary_2 ==
  <<" ","k","e","y"," ","p","r","o","v","i","s","i","o","n","s"," ","i","d",
    "e","n","t","i","f","i","e","d",","," ">>


S_summary_3 ==
  <<" ","c","l","a","u","s","e","s"," ","m","a","y"," ","b","e"," ","m","i",
    "s","s","i","n","g",".">>


S_dot_pdf ==
  <<".","p","d","f">>


S_dot_docx ==
  <<".","d","o","c","x">>


S_dot_txt ==
  <<".","t","x","t">>


\* self.model_name
model_name ==
  <<"l","l","a","m","a","3",".","2",":","1","b">>


\* key_terms: the clauses in the order of the dict, each with its keywords
key_terms ==
  <<
    [clause |->
        <<"d","a","t","a"," ","c","o","n","t","r","o","l","l","e","r">>,
     keywords |-> <<
        <<"d","a","t","a"," ","c","o","n","t","r","o","l","l","e","r">>,
        <<"c","o","n","t","r","o","l","l","e","r">>>>],
    [clause |->
        <<"d","a","t","a"," ","p","r","o","c","e","s","s","o","r">>,
     keywords |-> <<
        <<"d","a","t","a"," ","p","r","o","c","e","s","s","o","r">>,
        <<"p","r","o","c","e","s","s","o","r">>>>],
    [clause |->
        <<"p","e","r","s","o","n","a","l"," ","d","a","t","a">>,
     keywords |-> <<
        <<"p","e","r","s","o","n","a","l"," ","d","a","t","a">>,
        <<"p","e","r","s","o","n","a","l","l","y"," ","i","d","e","n","t","i",
          "f","i","a","b","l","e">>>>],
    [clause |->
        <<"g","d","p","r">>,
     keywords |-> <<
        <<"g","d","p","r">>,
        <<"g","e","n","e","r","a","l"," ","d","a","t","a"," ","p","r","o","t",
          "e","c","t","i","o","n"," ","r","e","g","u","l","a","t","i","o",
          "n">>>>],
    [clause |->
        <<"s","e","c","u","r","i","t","y"," ","m","e","a","s","u","r","e",
          "s">>,
     keywords |-> <<
        <<"s","e","c","u","r","i","t","y"," ","m","e","a","s","u","r","e",
          "s">>,
        <<"t","e","c","h","n","i","c","a","l"," ","s","a","f","e","g","u","a",
          "r","d","s">>,
        <<"e","n","c","r","y","p","t","i","o","n">>>>],
    [clause |->
        <<"d","a","t","a"," ","b","r","e","a","c","h">>,
     keywords |-> <<
        <<"d","a","t","a"," ","b","r","e","a","c","h">>,
        <<"b","r","e","a","c","h"," ","n","o","t","i","f","i","c","a","t","i",
          "o","n">>,
        <<"s","e","c","u","r","i","t","y"," ","i","n","c","i","d","e","n",
          "t">>>>],
    [clause |->
        <<"d","a","t","a"," ","s","u","b","j","e","c","t"," ","r","i","g","h",
          "t","s">>,
     keywords |-> <<
        <<"d","a","t","a"," ","s","u","b","j","e","c","t"," ","r","i","g","h",
          "t","s">>,
        <<"r","i","g","h","t"," ","t","o"," ","a","c","c","e","s","s">>,
        <<"r","i","g","h","t"," ","t","o"," ","e","r","a","s","u","r","e">>>>],
    [clause |->
        <<"r","e","t","e","n","t","i","o","n">>,
     keywords |-> <<
        <<"r","e","t","e","n","t","i","o","n"," ","p","e","r","i","o","d">>,
        <<"d","a","t","a"," ","r","e","t","e","n","t","i","o","n">>,
        <<"d","e","l","e","t","i","o","n">>>>],
    [clause |->
        <<"s","u","b","p","r","o","c","e","s","s","o","r">>,
     keywords |-> <<
        <<"s","u","b","p","r","o","c","e","s","s","o","r">>,
        <<"s","u","b","-","p","r","o","c","e","s","s","o","r">>,
        <<"t","h","i","r","d"," ","p","a","r","t","y">>>>]
  >>

(***************************************************************************)
(* The knowledge base                                                      *)
(***************************************************************************)

\* DPAKnowledgeBase._create_playbook: the "section" of each of the ten
\* review sections, in order (the rest of the playbook is text that the
\* analyzer never reads).
CreatePlaybook ==
  [review_sections |->
     <<"1. Parties and Roles", "2. Purpose and Scope of Processing",
       "3. Data Subject Rights", "4. Security Measures",
       "5. International Transfers", "6. Subprocessing",
       "7. Data Retention and Deletion", "8. Breach Notification",
       "9. Auditing and Compliance", "10. Liability and Indemnification">>]

(***************************************************************************)
(* The parsing of the model's response text (_call_ollama_api, the try     *)
(* block around json.loads)                                                *)
(***************************************************************************)

\* a dict literal: pairs is a sequence of <<key, value>>
DictOf(pairs) ==
  PyDict([k \in {pairs[i][1] : i \in 1..Len(pairs)} |->
            pairs[CHOOSE i \in 1..Len(pairs) :
                    /\ pairs[i][1] = k
                    /\ \A j \in (i+1)..Len(pairs) : pairs[j][1] # k][2]])

\* a list of str
StrList(strings) == PyList([i \in 1..Len(strings) |-> PyStr(strings[i])])

\* the "basic structure" returned when the parsing fails
DegradedResult ==
  DictOf(<<
    <<K_overall_assessment, DictOf(<<
        <<K_compliance_score, PyInt(70)>>,
        <<K_risk_level, PyStr(S_medium)>>,
        <<K_executive_summary, PyStr(S_degraded_summary)>> >>)>>,
    <<K_section_analysis, PyList(<< DictOf(<<
        <<K_section, PyStr(S_ai_analysis)>>,
        <<K_status, PyStr(S_unclear)>>,
        <<K_score, PyInt(70)>>,
        <<K_findings, StrList(<<S_degraded_finding>>)>>,
        <<K_recommendations, StrList(<<S_manual_review_recommended>>)>>,
        <<K_red_flags, StrList(<<S_parsing_failed>>)>> >>) >>)>>,
    <<K_missing_clauses, StrList(<<>>)>>,
    <<K_strengths, StrList(<<S_processed_by_ai>>)>>,
    <<K_critical_issues, StrList(<<S_formatting_needs_improvement>>)>>,
    <<K_recommendations,
      StrList(<<S_consider_upgrading, S_manual_legal_review_advised>>)>> >>)

\* cleaned_response[json_start:json_end] as it stands, a variant that
\* leaves the "common JSON issues" in
JsonContentAsIs(cleaned_response, json_start, json_end) ==
  Slice(cleaned_response, json_start, json_end)

\* cleaned_response[json_start:json_end] with the "common JSON issues" fixed
JsonContent(cleaned_response, json_start, json_end) ==
  ReplaceDoubleSpaces(ReplaceNewlines(Slice(cleaned_response, json_start, json_end)))

\* the except branch: why is "bracket_failed" after a JSONDecodeError of
\* the second json.loads, "no_json" after "No valid JSON found in response"
Degraded(why) == [stage |-> "degraded", why |-> why, v |-> DegradedResult]

\* return json.loads(json_content)
BracketParse(bracket) ==
  IF bracket.ok THEN [stage |-> "bracket", why |-> "", v |-> bracket.v]
  ELSE Degraded("bracket_failed")

\* the except json.JSONDecodeError branch of the first json.loads
BracketExtract(cleaned_response, json_start, json_end) ==
  IF json_start # -1 /\ json_end # -1
    THEN BracketParse(JsonLoads(JsonContent(cleaned_response, json_start, json_end)))
    ELSE Degraded("no_json")

\* return json.loads(cleaned_response)
DirectParse(cleaned_response, direct) ==
  IF direct.ok THEN [stage |-> "direct", why |-> "", v |-> direct.v]
  ELSE BracketExtract(cleaned_response, Find(cleaned_response, "{"),
                      RFind(cleaned_response, "}") + 1)

RecoverCleaned(cleaned_response) ==
  DirectParse(cleaned_response, JsonLoads(cleaned_response))

\* The try block on a response text that is a str: the value returned and
\* the stage that produced it.  "direct": json.loads of the stripped text;
\* "bracket": json.loads of the text from the first "{" to the last "}";
\* "degraded": the except branch.
Recover(response_text) == RecoverCleaned(Strip(response_text))

(***************************************************************************)
(* The rule-based scorer (_fallback_analysis)                              *)
(***************************************************************************)

\* found = any(keyword in text_lower for keyword in keywords)
Found(text_lower, keywords) ==
  \E k \in 1..Len(keywords) : Contains(text_lower, keywords[k])

\* the finding appended for a clause that is found
FindingText(clause) == S_finding_prefix \o Title(clause) \o S_finding_suffix

\* The loop over key_terms from its i-th clause on; acc holds findings,
\* missing_clauses and score.
RECURSIVE ScanKeyTerms(_, _, _)
ScanKeyTerms(text_lower, i, acc) ==
  IF i > Len(key_terms) THEN acc
  ELSE IF Found(text_lower, key_terms[i].keywords)
    THEN ScanKeyTerms(text_lower, i + 1,
           [findings |-> Append(acc.findings, FindingText(key_terms[i].clause)),
            missing_clauses |-> acc.missing_clauses,
            score |-> acc.score + 5])
    ELSE ScanKeyTerms(text_lower, i + 1,
           [findings |-> acc.findings,
            missing_clauses |-> Append(acc.missing_clauses, key_terms[i].clause),
            score |-> acc.score - 10])

\* a variant of the loop that starts at 60
KeywordScanFrom60(text_content) ==
  ScanKeyTerms(Lower(text_content), 1,
               [findings |-> <<>>, missing_clauses |-> <<>>, score |-> 60])

\* findings, missing_clauses and score after the loop
KeywordScan(text_content) ==
  ScanKeyTerms(Lower(text_content), 1,
               [findings |-> <<>>, missing_clauses |-> <<>>, score |-> 70])

\* a variant of the risk assessment with the thresholds at 75 and 55
RiskLevelShifted(score) ==
  IF score >= 75 THEN S_low ELSE IF score >= 55 THEN S_medium ELSE S_high

\* the risk assessment based on the score
RiskLevel(score) ==
  IF score >= 80 THEN S_low ELSE IF score >= 60 THEN S_medium ELSE S_high

\* a variant that returns the running score as it is
ClampScoreOff(score) == score

\* max(0, min(100, score))
ClampScore(score) == Max(0, Min(100, score))

\* the score of the "Automated Analysis" section
SectionScore(score) == score

ExecutiveSummary(findings, missing_clauses) ==
  S_summary_1 \o IntToStr(Len(findings)) \o S_summary_2
    \o IntToStr(Len(missing_clauses)) \o S_summary_3

\* the dict returned
FallbackResult(findings, missing_clauses, score) ==
  DictOf(<<
    <<K_overall_assessment, DictOf(<<
        <<K_compliance_score, PyInt(ClampScore(score))>>,
        <<K_risk_level, PyStr(RiskLevel(score))>>,
        <<K_executive_summary,
          PyStr(ExecutiveSummary(findings, missing_clauses))>> >>)>>,
    <<K_section_analysis, PyList(<< DictOf(<<
        <<K_section, PyStr(S_automated_analysis)>>,
        <<K_status, PyStr(S_partial_review)>>,
        <<K_score, PyInt(SectionScore(score))>>,
        <<K_findings, StrList(findings)>>,
        <<K_recommendations,
          StrList(<<S_complete_llm_setup, S_manual_legal_review_recommended>>)>>,
        <<K_red_flags, StrList(<<S_llm_unavailable_flag>>)>> >>) >>)>>,
    <<K_missing_clauses, StrList(missing_clauses)>>,
    <<K_strengths, StrList(findings)>>,
    <<K_critical_issues,
      StrList(<<S_llm_service_unavailable, S_manual_review_required>>)>>,
    <<K_recommendations,
      StrList(<<S_set_up_ollama, S_conduct_manual_review, S_verify_article_28>>)>> >>)

Scored(scan) == FallbackResult(scan.findings, scan.missing_clauses, scan.score)

FallbackAnalysis(text_content) == Scored(KeywordScan(text_content))

(***************************************************************************)
(* _structure_analysis                                                     *)
(***************************************************************************)

Metadata(original_text, timestamp) ==
  DictOf(<<
    <<K_document_length, PyInt(Len(original_text))>>,
    <<K_analysis_timestamp, PyFloat(timestamp, 0)>>,
    <<K_analyzer_version, PyStr(S_version)>>,
    <<K_model_used, PyStr(model_name)>> >>)

PlaybookReference(playbook) ==
  DictOf(<<
    <<K_sections_reviewed, PyInt(Len(playbook.review_sections))>>,
    <<K_playbook_version, PyStr(S_version)>> >>)

\* The item assignment analysis_result["metadata"] = ... raises a TypeError
\* on every value that is not a dict (a list, a str, a number, None).
StructureAnalysis(analysis_result, original_text, timestamp, playbook) ==
  IF analysis_result.t # "dict"
    THEN [raised |-> TRUE, v |-> PyNone]
    ELSE [raised |-> FALSE,
          v |-> SetItem(SetItem(analysis_result, K_metadata,
                                Metadata(original_text, timestamp)),
                        K_playbook_reference, PlaybookReference(playbook))]

(***************************************************************************)
(* _extract_text                                                           *)
(*                                                                         *)
(* A document's bytes are modelled by what the readers make of them:       *)
(* whether they can be read at all (PdfReader, docx.Document and           *)
(* bytes.decode raise otherwise) and the texts of the units they hold (the *)
(* pages of a PDF, the paragraphs of a DOCX, the lines of a text file).    *)
(***************************************************************************)

RECURSIVE JoinEach(_)
\* text += unit + "\n" for every unit
JoinEach(units) ==
  IF units = <<>> THEN <<>> ELSE Head(units) \o <<"\n">> \o JoinEach(Tail(units))

\* the decoded text of a text file: its lines, each but the last ended by "\n"
JoinLines(units) ==
  IF units = <<>> THEN <<>> ELSE SubSeq(JoinEach(units), 1, Len(JoinEach(units)) - 1)

NoError == [stage |-> "", kind |-> "", filename |-> <<>>]

\* Exception(f"Text extraction failed: {str(e)}") around one of
\* "Unsupported file format: {filename}", "PDF extraction failed: ...",
\* "DOCX extraction failed: ..." and the decode error
ExtractionError(kind, filename) ==
  [stage |-> "Text extraction failed", kind |-> kind, filename |-> filename]

ExtractOk(text) == [raised |-> FALSE, text |-> text, error |-> NoError]

ExtractRaise(kind, filename) ==
  [raised |-> TRUE, text |-> <<>>, error |-> ExtractionError(kind, filename)]

ExtractFromPdf(file_content) ==
  IF file_content.readable
    THEN ExtractOk(JoinEach(file_content.units))
    ELSE ExtractRaise("PDF extraction failed", <<>>)

ExtractFromDocx(file_content) ==
  IF file_content.readable
    THEN ExtractOk(JoinEach(file_content.units))
    ELSE ExtractRaise("DOCX extraction failed", <<>>)

DecodeUtf8(file_content) ==
  IF file_content.readable
    THEN ExtractOk(JoinLines(file_content.units))
    ELSE ExtractRaise("UnicodeDecodeError", <<>>)

\* the suffixes _extract_text dispatches on
\* a variant that compares the name as it was given
IsPdfCaseSensitive(filename) == EndsWith(filename, S_dot_pdf)

IsPdf(filename) == EndsWith(Lower(filename), S_dot_pdf)

IsDocx(filename) == EndsWith(Lower(filename), S_dot_docx)

IsTxt(filename) == EndsWith(Lower(filename), S_dot_txt)

ExtractText(file_content, filename) ==
  IF IsPdf(filename) THEN ExtractFromPdf(file_content)
  ELSE IF IsDocx(filename) THEN ExtractFromDocx(file_content)
  ELSE IF IsTxt(filename) THEN DecodeUtf8(file_content)
  ELSE ExtractRaise("Unsupported file format", filename)

\* limited_text = text_content[:2000], the document's part of the prompt
LimitedText(text_content) == Slice(text_content, 0, 2000)



(***************************************************************************)
(* Inputs                                                                  *)
(***************************************************************************)

\* the most units (pages, paragraphs, lines) of a scored text
MaxUnits == 8

\* the most units of a document that goes through the pipeline, but for
\* the one document that holds every clause
MaxDocUnits == 1

\* the longest response text made of every character of RawAlphabet
MaxRawLen == 4

\* the same for the response texts of the pipeline
MaxResponseLen == 2

\* the longest key of an object embedded in commentary
MaxKeyLen == 3

\* the latest reading of the event loop's clock
MaxTime == 1

\* the units documents are made of
Phrases ==
  <<
    <<"D","a","t","a"," ","C","o","n","t","r","o","l","l","e","r">>,
    <<"s","u","b","p","r","o","c","e","s","s","o","r">>,
    <<"p","e","r","s","o","n","a","l"," ","d","a","t","a">>,
    <<"G","D","P","R">>,
    <<"e","n","c","r","y","p","t","i","o","n">>,
    <<"s","e","c","u","r","i","t","y"," ","i","n","c","i","d","e","n","t">>,
    <<"r","i","g","h","t"," ","t","o"," ","e","r","a","s","u","r","e">>,
    <<"d","e","l","e","t","i","o","n">>,
    <<"d","a","t","a"," ","p","r","o","c","e","s","s","o","r">>,
    <<"t","h","i","r","d"," ","p","a","r","t","y">>,
    <<"l","o","r","e","m"," ","i","p","s","u","m">>>>

\* the sequences among 1..n that increase, of at most k items
RECURSIVE Increasing(_, _)
Increasing(n, k) ==
  IF k = 0 \/ n = 0 THEN {<<>>}
  ELSE Increasing(n - 1, k) \cup {Append(q, n) : q \in Increasing(n - 1, k - 1)}

UnitsOf(picks) == [i \in 1..Len(picks) |-> Phrases[picks[i]]]

\* the units of the texts given to the scorer
ScoredUnits == {UnitsOf(q) : q \in Increasing(Len(Phrases), MaxUnits)}

\* the document that holds a keyword of every clause
FullUnits == UnitsOf(<<1, 2, 3, 4, 5, 6, 7, 8>>)

\* the units of the documents of the pipeline: "Data Controller",
\* "encryption", "data processor" and "lorem ipsum"
DocumentPicks ==
  {q \in Increasing(Len(Phrases), MaxDocUnits) :
     \A i \in 1..Len(q) : q[i] \in {1, 5, 9, 11}}

\* the documents of the pipeline: the readable ones, and one no reader reads
Documents ==
  {[readable |-> TRUE, units |-> u] :
     u \in {UnitsOf(q) : q \in DocumentPicks} \cup {FullUnits}}
  \cup {[readable |-> FALSE, units |-> <<>>]}

Filenames ==
  {
   <<"d","p","a",".","p","d","f">>,
   <<"D","P","A",".","P","D","F">>,
   <<"d","p","a",".","d","o","c","x">>,
   <<"d","p","a",".","T","x","t">>,
   <<"d","p","a",".","d","o","c">>,
   <<"d","p","a",".","p","d","f",".","b","a","k">>,
   <<"t","x","t">>,
   <<>>}

\* every sequence over the set S of length n, and of length at most n
RECURSIVE SeqsOfLen(_, _)
SeqsOfLen(S, n) ==
  IF n = 0 THEN {<<>>} ELSE {Append(q, c) : q \in SeqsOfLen(S, n - 1), c \in S}

SeqsUpTo(S, n) == UNION {SeqsOfLen(S, m) : m \in 0..n}

\* the characters of the enumerated response texts
RawAlphabet == {"{", "}", "\"", ":", "1", "a", " ", "\n"}

\* a response that follows the prompt's REQUIRED JSON RESPONSE, over several lines
ValidResponse ==
  <<"{","\n"," ","\"","o","v","e","r","a","l","l","_","a","s","s","e","s","s",
    "m","e","n","t","\"",":"," ","{","\n"," "," ","\"","c","o","m","p","l",
    "i","a","n","c","e","_","s","c","o","r","e","\"",":"," ","7","5",",","\n",
    " "," ","\"","r","i","s","k","_","l","e","v","e","l","\"",":"," ","\"",
    "m","e","d","i","u","m","\"",",","\n"," "," ","\"","e","x","e","c","u",
    "t","i","v","e","_","s","u","m","m","a","r","y","\"",":"," ","\"","o","k",
    "\"","\n"," ","}",",","\n"," ","\"","s","e","c","t","i","o","n","_","a",
    "n","a","l","y","s","i","s","\"",":"," ","[","\n"," "," ","{","\n"," ",
    " "," ","\"","s","e","c","t","i","o","n","\"",":"," ","\"","K","e","y",
    " ","P","r","o","v","i","s","i","o","n","s","\"",",","\n"," "," "," ",
    "\"","s","t","a","t","u","s","\"",":"," ","\"","c","o","m","p","l","i",
    "a","n","t","\"",",","\n"," "," "," ","\"","s","c","o","r","e","\"",":",
    " ","8","0",",","\n"," "," "," ","\"","f","i","n","d","i","n","g","s",
    "\"",":"," ","[","\n"," "," "," "," ","\"","S","e","c","u","r","i","t",
    "y"," ","m","e","a","s","u","r","e","s"," ","p","r","e","s","e","n","t",
    "\"","\n"," "," "," ","]",",","\n"," "," "," ","\"","r","e","c","o","m",
    "m","e","n","d","a","t","i","o","n","s","\"",":"," ","[","]",",","\n"," ",
    " "," ","\"","r","e","d","_","f","l","a","g","s","\"",":"," ","[","\n",
    " "," "," "," ","\"","M","i","s","s","i","n","g"," ","a","u","d","i","t",
    " ","r","i","g","h","t","s","\"","\n"," "," "," ","]","\n"," "," ","}",
    "\n"," ","]",",","\n"," ","\"","m","i","s","s","i","n","g","_","c","l",
    "a","u","s","e","s","\"",":"," ","[","\n"," "," ","\"","a","u","d","i",
    "t"," ","r","i","g","h","t","s","\"","\n"," ","]",",","\n"," ","\"","s",
    "t","r","e","n","g","t","h","s","\"",":"," ","[","]",",","\n"," ","\"",
    "c","r","i","t","i","c","a","l","_","i","s","s","u","e","s","\"",":"," ",
    "[","]",",","\n"," ","\"","r","e","c","o","m","m","e","n","d","a","t","i",
    "o","n","s","\"",":"," ","[","]","\n","}">>

CommentaryBefore ==
  <<"H","e","r","e"," ","i","s"," ","t","h","e"," ","r","e","s","u","l","t",
    ":"," ">>

CommentaryAfter ==
  <<" ","T","h","a","n","k","s","!">>

\* an object that holds keys of the assembler's names
MetadataResponse ==
  <<"{","\"","m","e","t","a","d","a","t","a","\"",":"," ","{","\"","m","o",
    "d","e","l","_","u","s","e","d","\"",":"," ","\"","g","p","t","\"","}",
    ","," ","\"","p","l","a","y","b","o","o","k","_","r","e","f","e","r","e",
    "n","c","e","\"",":"," ","7","}">>

\* the response texts of the pipeline
\* response texts with the lone surrogate: no JSON, no JSON between the
\* braces, and a JSON object
SurrogateTexts ==
  {<<"U+D800">>, <<"a", "{", "U+D800", "}">>,
   <<"{", "\"", "a", "\"", ":", "\"", "U+D800", "\"", "}">>}

ResponseTexts ==
  SeqsUpTo(RawAlphabet, MaxResponseLen)
  \cup {ValidResponse, CommentaryBefore \o ValidResponse \o CommentaryAfter,
        MetadataResponse}
  \cup SurrogateTexts

\* the texts around an embedded object
Commentaries == {<<>>, <<"a">>, <<"a", " ">>, <<"\n", "a">>}

\* the texts of the values of an embedded object
ValueTexts == {<<"1">>, <<"\"", "a", "\"">>, <<"{", "}">>, <<" ", "1", " ">>}

\* {"key":value}
ObjectText(key, value) ==
  <<"{", "\"">> \o key \o <<"\"", ":">> \o value \o <<"}">>

\* objects with one key, alone and in commentary
EmbeddedTexts ==
  {before \o ObjectText(key, value) \o after :
     before \in Commentaries, after \in Commentaries,
     key \in SeqsUpTo({"a", " ", "\n"}, MaxKeyLen), value \in ValueTexts}

\* the response texts given to the parsing alone
RawTexts ==
  SeqsUpTo(RawAlphabet, MaxRawLen) \cup EmbeddedTexts \cup ResponseTexts

\* the bodies response.json() returns: an object with the response text,
\* an object without one, an object whose "response" is no text, and a
\* body that is no object
Bodies ==
  {DictOf(<< <<K_response, PyStr(t)>> >>) : t \in ResponseTexts}
  \cup {DictOf(<< <<K_response, v>> >>) :
          v \in {PyNone, PyInt(1), PyList(<<>>), PyDict(<<>>)}}
  \cup {PyDict(<<>>), PyList(<<>>)}

\* the statuses of the endpoint
Statuses == {200, 404, 500}

Timestamps == 0..MaxTime

(***************************************************************************)
(* _call_ollama_api, _perform_ai_analysis and analyze_document             *)
(*                                                                         *)
(* A reply is what the endpoint does to the one POST: error is "none",     *)
(* "transport" (aiohttp.ClientError) or "timeout"; status is the HTTP      *)
(* status; body is what response.json() makes of the body: json_ok is      *)
(* FALSE when it raises.                                                   *)
(***************************************************************************)

Reply(error, status, json_ok, v) ==
  [error |-> error, status |-> status, body |-> [json_ok |-> json_ok, v |-> v]]

Raised(why) == [raised |-> TRUE, why |-> why, stage |-> "", v |-> PyNone]

Returned(stage, v) == [raised |-> FALSE, why |-> "", stage |-> stage, v |-> v]

\* result.get("response", "")
ResponseField(result) ==
  IF K_response \in DOMAIN result.o THEN result.o[K_response] ELSE PyStr(<<>>)

\* The try block on a response_text of any type.  strip() raises an
\* AttributeError on what is no str, which the except branch catches; the
\* branch then prints response_text[:500], which raises again on what
\* cannot be sliced, and that exception leaves the try block.
\* the characters sys.stdout does not encode: the lone surrogate U+D800,
\* written "U+D800", which the body's "\ud800" becomes in response.json()
Unencodable == {"U+D800"}

\* print(text) returns: sys.stdout encodes every character of the text
Prints(text) == \A i \in 1..Len(text) : text[i] \notin Unencodable

\* the value of the try block; in the except branch
\* print(f"Raw response (first 500 chars): {response_text[:500]}") comes
\* before the return, and its UnicodeEncodeError leaves the handler
Recovered(r, response_text) ==
  IF r.stage = "degraded" /\ ~Prints(Slice(response_text, 0, 500))
    THEN Raised("UnicodeEncodeError")
    ELSE Returned(r.stage, r.v)

ParseResponse(response_text) ==
  IF response_text.t = "str"
    THEN Recovered(Recover(response_text.s), response_text.s)
  ELSE IF response_text.t = "list" THEN Returned("degraded", DegradedResult)
  ELSE Raised("TypeError")

\* _call_ollama_api: every exception is raised again as "LLM API call failed"
CallOllamaApi(reply) ==
  IF reply.error # "none" THEN Raised(reply.error)
  ELSE IF reply.status = 200
    THEN IF ~reply.body.json_ok THEN Raised("body")
         ELSE IF reply.body.v.t # "dict" THEN Raised("AttributeError")
         ELSE ParseResponse(ResponseField(reply.body.v))
    ELSE Raised("status")

\* whether _call_ollama_api reaches the try block that parses the text
ReachesParsing(reply) ==
  /\ reply.error = "none"
  /\ reply.status = 200
  /\ reply.body.json_ok
  /\ reply.body.v.t = "dict"

\* _perform_ai_analysis: the result of the call, or of the fallback when
\* the call raises
\* a variant without the except branch: the failure of the call is the
\* outcome
PerformAiAnalysisNoFallback(call, text_content) ==
  [path |-> call.stage, v |-> call.v]

PerformAiAnalysis(call, text_content) ==
  IF call.raised
    THEN [path |-> "fallback", v |-> FallbackAnalysis(text_content)]
    ELSE [path |-> call.stage, v |-> call.v]

\* Exception(f"Document analysis failed: {str(e)}")
AnalysisError(error) ==
  [stage |-> "Document analysis failed", kind |-> error.kind,
   inner |-> error.stage, filename |-> error.filename]

NoFailure == [stage |-> "", kind |-> "", inner |-> "", filename |-> <<>>]

\* the request's payload
Payload(prompt_text) ==
  [model |-> model_name, prompt |-> prompt_text, stream |-> FALSE,
   temperature |-> "0.1", top_p |-> "0.9"]

(***************************************************************************)
(* The state                                                               *)
(***************************************************************************)

\* the analyses: coroutines of analyze_document on the one DPAAnalyzer
Procs == {1, 2}

VARIABLES
  playbook,       \* self.knowledge_base.playbook
  pc,             \* where each analysis is
  filename,       \* its filename argument
  text_content,   \* the text extracted from its file_content
  requests,       \* the payloads it posted to the endpoint
  reply,          \* what the endpoint did to its POST, as far as it is known
  ran,            \* the stages it ran
  path,           \* the stage that produced its analysis_result
  result,         \* the value analyze_document returned
  failure,        \* the exception analyze_document raised
  fnPc,           \* the pure functions: where the application is,
  fnIn,           \* its argument
  fnOut           \* and its value

vars ==
  <<playbook, pc, filename, text_content, requests, reply, ran, path, result,
    failure, fnPc, fnIn, fnOut>>

fnVars == <<fnPc, fnIn, fnOut>>

NoReply == Reply("none", 0, FALSE, PyNone)

InitAnalyses(ready) ==
  /\ playbook = CreatePlaybook
  /\ pc = [p \in Procs |-> IF p \in ready THEN "ready" ELSE "idle"]
  /\ filename = [p \in Procs |-> <<>>]
  /\ text_content = [p \in Procs |-> <<>>]
  /\ requests = [p \in Procs |-> <<>>]
  /\ reply = [p \in Procs |-> NoReply]
  /\ ran = [p \in Procs |-> {}]
  /\ path = [p \in Procs |-> "none"]
  /\ result = [p \in Procs |-> PyNone]
  /\ failure = [p \in Procs |-> NoFailure]

Init ==
  /\ InitAnalyses({1})
  /\ fnPc = "off"
  /\ fnIn = <<>>
  /\ fnOut = [path |-> "none", v |-> PyNone]

(***************************************************************************)
(* The steps of an analysis.  A coroutine runs alone from one await that   *)
(* suspends it to the next: only the POST and the reading of the body      *)
(* suspend an analysis.                                                    *)
(***************************************************************************)

\* analyze_document from its call to the await of session.post: the text
\* is extracted, the prompt built and the request posted; an exception of
\* _extract_text leaves analyze_document as "Document analysis failed".
AnalyzeDocumentOf(p, names, documents) ==
  /\ pc[p] = "ready"
  /\ \E name \in names, file_content \in documents :
       LET extracted == ExtractText(file_content, name) IN
       /\ filename' = [filename EXCEPT ![p] = name]
       /\ IF extracted.raised
            THEN /\ pc' = [pc EXCEPT ![p] = "raised"]
                 /\ failure' = [failure EXCEPT ![p] = AnalysisError(extracted.error)]
                 /\ ran' = [ran EXCEPT ![p] = {"extract"}]
                 /\ UNCHANGED <<text_content, requests>>
            ELSE /\ pc' = [pc EXCEPT ![p] = "posting"]
                 /\ text_content' = [text_content EXCEPT ![p] = extracted.text]
                 /\ requests' = [requests EXCEPT ![p] =
                                   Append(@, Payload(LimitedText(extracted.text)))]
                 /\ ran' = [ran EXCEPT ![p] = {"extract", "prompt", "model_call"}]
                 /\ UNCHANGED failure
  /\ UNCHANGED <<playbook, reply, path, result, fnVars>>

\* with any of the filenames and the documents
AnalyzeDocument(p) == AnalyzeDocumentOf(p, Filenames, Documents)

\* a variant whose _structure_analysis takes a section off the playbook it
\* counts, as get_playbook()["review_sections"].pop(0) would
FinishAndPop(p, r, call, analysis, structured) ==
  /\ reply' = [reply EXCEPT ![p] = r]
  /\ path' = [path EXCEPT ![p] = analysis.path]
  /\ ran' = [ran EXCEPT ![p] =
               @ \cup (IF ReachesParsing(r) THEN {"recover"} ELSE {})
                 \cup (IF call.raised THEN {"score"} ELSE {})
                 \cup {"assemble"}]
  /\ IF structured.raised
       THEN /\ pc' = [pc EXCEPT ![p] = "raised"]
            /\ failure' = [failure EXCEPT ![p] =
                 AnalysisError([stage |-> "", kind |-> "TypeError", filename |-> <<>>])]
            /\ UNCHANGED result
       ELSE /\ pc' = [pc EXCEPT ![p] = "returned"]
            /\ result' = [result EXCEPT ![p] = structured.v]
            /\ UNCHANGED failure
  /\ playbook' = [playbook EXCEPT !.review_sections = Tail(@)]
  /\ UNCHANGED <<filename, text_content, requests, fnVars>>

\* analyze_document from the end of the model call on: _call_ollama_api
\* returns or raises, _perform_ai_analysis falls back when it raises,
\* _structure_analysis adds the metadata, whose TypeError leaves
\* analyze_document as "Document analysis failed".
Finish(p, r, call, analysis, structured) ==
  /\ reply' = [reply EXCEPT ![p] = r]
  /\ path' = [path EXCEPT ![p] = analysis.path]
  /\ ran' = [ran EXCEPT ![p] =
               @ \cup (IF ReachesParsing(r) THEN {"recover"} ELSE {})
                 \cup (IF call.raised THEN {"score"} ELSE {})
                 \cup {"assemble"}]
  /\ IF structured.raised
       THEN /\ pc' = [pc EXCEPT ![p] = "raised"]
            /\ failure' = [failure EXCEPT ![p] =
                 AnalysisError([stage |-> "", kind |-> "TypeError", filename |-> <<>>])]
            /\ UNCHANGED result
       ELSE /\ pc' = [pc EXCEPT ![p] = "returned"]
            /\ result' = [result EXCEPT ![p] = structured.v]
            /\ UNCHANGED failure
  /\ UNCHANGED <<playbook, filename, text_content, requests, fnVars>>

Structure(p, r, call, analysis, timestamp) ==
  Finish(p, r, call, analysis,
         StructureAnalysis(analysis.v, text_content[p], timestamp, playbook))

Analyse(p, r, call, timestamp) ==
  Structure(p, r, call, PerformAiAnalysis(call, text_content[p]), timestamp)

Complete(p, r, timestamp) == Analyse(p, r, CallOllamaApi(r), timestamp)

\* a variant that posts the request once more when session.post raises
PostFailsAndRetries(p) ==
  /\ pc[p] = "posting"
  /\ Len(requests[p]) < 2
  /\ requests' = [requests EXCEPT ![p] = Append(@, @[1])]
  /\ UNCHANGED <<playbook, pc, filename, text_content, reply, ran, path, result,
                 failure, fnVars>>

\* session.post raises: the endpoint is unreachable, or the request times out
PostFails(p) ==
  /\ pc[p] = "posting"
  /\ \E error \in {"transport", "timeout"}, timestamp \in Timestamps :
       Complete(p, Reply(error, 0, FALSE, PyNone), timestamp)

\* session.post returns a response whose status is not 200
PostRefused(p) ==
  /\ pc[p] = "posting"
  /\ \E status \in Statuses \ {200}, timestamp \in Timestamps :
       Complete(p, Reply("none", status, FALSE, PyNone), timestamp)

\* session.post returns a response of status 200: response.json() is awaited
PostAnswered(p) ==
  /\ pc[p] = "posting"
  /\ pc' = [pc EXCEPT ![p] = "reading"]
  /\ reply' = [reply EXCEPT ![p] = Reply("none", 200, FALSE, PyNone)]
  /\ UNCHANGED <<playbook, filename, text_content, requests, ran, path, result,
                 failure, fnVars>>

\* response.json() raises: the body is no JSON, the connection breaks, the
\* read times out
BodyFails(p) ==
  /\ pc[p] = "reading"
  /\ \E timestamp \in Timestamps :
       Complete(p, Reply("none", 200, FALSE, PyNone), timestamp)

\* response.json() returns the body
BodyReadFrom(p, bodies) ==
  /\ pc[p] = "reading"
  /\ \E body \in bodies, timestamp \in Timestamps :
       Complete(p, Reply("none", 200, TRUE, body), timestamp)

\* with any of the bodies
BodyRead(p) == BodyReadFrom(p, Bodies)

Next ==
  \E p \in Procs :
    \/ AnalyzeDocument(p)
    \/ PostFails(p)
    \/ PostRefused(p)
    \/ PostAnswered(p)
    \/ BodyFails(p)
    \/ BodyRead(p)

Spec == Init /\ [][Next]_vars


(***************************************************************************)
(* Two analyses on the one DPAAnalyzer: their steps interleave at the      *)
(* awaits.  The files and the bodies are the few below.                    *)
(***************************************************************************)

ConcurrentFilenames ==
  {<<"d","p","a",".","p","d","f">>, <<"d","p","a",".","d","o","c","x">>,
   <<"d","p","a",".","d","o","c">>}

\* the document of "Data Controller", the one with every clause and one
\* no reader reads
ConcurrentDocuments ==
  {[readable |-> TRUE, units |-> UnitsOf(<<1>>)],
   [readable |-> TRUE, units |-> FullUnits],
   [readable |-> FALSE, units |-> <<>>]}

ConcurrentBodies ==
  {DictOf(<< <<K_response, PyStr(text)>> >>) :
     text \in {ValidResponse, <<"{", "}">>, <<"1">>, <<"a">>}}

InitConcurrent ==
  /\ InitAnalyses(Procs)
  /\ fnPc = "off"
  /\ fnIn = <<>>
  /\ fnOut = [path |-> "none", v |-> PyNone]

NextConcurrent ==
  \E p \in Procs :
    \/ AnalyzeDocumentOf(p, ConcurrentFilenames, ConcurrentDocuments)
    \/ PostFails(p)
    \/ PostRefused(p)
    \/ PostAnswered(p)
    \/ BodyFails(p)
    \/ BodyReadFrom(p, ConcurrentBodies)

SpecConcurrent == InitConcurrent /\ [][NextConcurrent]_vars


(***************************************************************************)
(* The scorer and the parsing on their own: a text is drawn and the        *)
(* function applied to it.                                                 *)
(***************************************************************************)

NoValue == [path |-> "none", v |-> PyNone]

\* the texts scored: the lines of a text file
ScoredTexts == {JoinLines(u) : u \in ScoredUnits}

InitScore ==
  /\ InitAnalyses({})
  /\ fnPc = "score"
  /\ fnIn \in ScoredTexts
  /\ fnOut = NoValue

\* _fallback_analysis(fnIn)
Score ==
  /\ fnPc = "score"
  /\ fnPc' = "scored"
  /\ fnOut' = [path |-> "fallback", v |-> FallbackAnalysis(fnIn)]
  /\ UNCHANGED <<playbook, pc, filename, text_content, requests, reply, ran,
                 path, result, failure, fnIn>>

SpecScore == InitScore /\ [][Score]_vars

InitRecover ==
  /\ InitAnalyses({})
  /\ fnPc = "recover"
  /\ fnIn \in RawTexts
  /\ fnOut = NoValue

\* the reply of status 200 whose body holds the response text
TextReply(response_text) ==
  Reply("none", 200, TRUE, DictOf(<< <<K_response, PyStr(response_text)>> >>))

\* _perform_ai_analysis of the empty document when the endpoint answers
\* with the response text fnIn
Recovering ==
  /\ fnPc = "recover"
  /\ fnPc' = "recovered"
  /\ fnOut' = PerformAiAnalysis(CallOllamaApi(TextReply(fnIn)), <<>>)
  /\ UNCHANGED <<playbook, pc, filename, text_content, requests, reply, ran,
                 path, result, failure, fnIn>>

SpecRecover == InitRecover /\ [][Recovering]_vars

(***************************************************************************)
(* The AnalysisResult schema (spec, section 3)                             *)
(***************************************************************************)

Field(d, k) == d.o[k]

HasKeys(d, keys) == d.t = "dict" /\ keys \subseteq DOMAIN d.o

IsTextList(v) == v.t = "list" /\ \A i \in 1..Len(v.a) : v.a[i].t = "str"

IsScore(v) == v.t = "int" /\ v.n \in 0..100

OverallValid(v) ==
  /\ HasKeys(v, {K_compliance_score, K_risk_level, K_executive_summary})
  /\ IsScore(Field(v, K_compliance_score))
  /\ Field(v, K_risk_level).t = "str"
  /\ Field(v, K_risk_level).s \in {S_low, S_medium, S_high}
  /\ Field(v, K_executive_summary).t = "str"

SectionValid(v) ==
  /\ HasKeys(v, {K_section, K_status, K_score, K_findings, K_recommendations,
                 K_red_flags})
  /\ Field(v, K_section).t = "str"
  /\ Field(v, K_status).t = "str"
  /\ Field(v, K_status).s \in {S_compliant, S_non_compliant, S_unclear, S_partial_review}
  /\ IsScore(Field(v, K_score))
  /\ IsTextList(Field(v, K_findings))
  /\ IsTextList(Field(v, K_recommendations))
  /\ IsTextList(Field(v, K_red_flags))

\* what the scorer and the parsing owe
AnalysisValid(v) ==
  /\ HasKeys(v, {K_overall_assessment, K_section_analysis, K_missing_clauses,
                 K_strengths, K_critical_issues, K_recommendations})
  /\ OverallValid(Field(v, K_overall_assessment))
  /\ Field(v, K_section_analysis).t = "list"
  /\ \A i \in 1..Len(Field(v, K_section_analysis).a) :
       SectionValid(Field(v, K_section_analysis).a[i])
  /\ IsTextList(Field(v, K_missing_clauses))
  /\ IsTextList(Field(v, K_strengths))
  /\ IsTextList(Field(v, K_critical_issues))
  /\ IsTextList(Field(v, K_recommendations))

MetadataValid(v) ==
  /\ HasKeys(v, {K_document_length, K_analysis_timestamp, K_analyzer_version,
                 K_model_used})
  /\ Field(v, K_document_length).t = "int"
  /\ Field(v, K_analysis_timestamp).t \in {"int", "float"}
  /\ Field(v, K_analyzer_version).t = "str"
  /\ Field(v, K_model_used).t = "str"

PlaybookReferenceValid(v) ==
  /\ HasKeys(v, {K_sections_reviewed, K_playbook_version})
  /\ Field(v, K_sections_reviewed).t = "int"
  /\ Field(v, K_playbook_version).t = "str"

\* what analyze owes its caller
ReturnedValid(v) ==
  /\ AnalysisValid(v)
  /\ HasKeys(v, {K_metadata, K_playbook_reference})
  /\ MetadataValid(Field(v, K_metadata))
  /\ PlaybookReferenceValid(Field(v, K_playbook_reference))


(***************************************************************************)
(* Properties                                                              *)
(***************************************************************************)

Finished(p) == pc[p] \in {"returned", "raised"}

\* C1: every value analyze_document returns has every AnalysisResult field
\* present and type-correct (scores in 0..100, risk_level and status among
\* their values, the four text lists, metadata, playbook_reference),
\* whichever path produced it.
C1_ReturnedValueIsValid ==
  \A p \in Procs : pc[p] = "returned" => ReturnedValid(result[p])

\* the model call failed: session.post raised (transport error, timeout),
\* the status is not 200, or the reading of the body raised
ModelCallFailed(r) == r.error # "none" \/ r.status # 200 \/ ~r.body.json_ok

\* C2: when the text extraction succeeds and the model call fails (non-200
\* status, transport error, timeout), analyze_document raises nothing and
\* returns the scorer's result for the extracted text with the metadata
\* and the playbook reference set on it.
C2_ModelFailureFallsBack ==
  \A p \in Procs :
    (Finished(p) /\ "model_call" \in ran[p] /\ ModelCallFailed(reply[p])) =>
      /\ pc[p] = "returned"
      /\ path[p] = "fallback"
      /\ \E timestamp \in Timestamps :
           result[p] =
             SetItem(SetItem(FallbackAnalysis(text_content[p]), K_metadata,
                             Metadata(text_content[p], timestamp)),
                     K_playbook_reference, PlaybookReference(CreatePlaybook))

C2_Witness ==
  \E p \in Procs :
    /\ pc[p] = "returned"
    /\ reply[p].error = "timeout"
    /\ path[p] = "fallback"
    /\ HasKeys(result[p], {K_metadata})

\* C3: only the errors of the extraction reach the caller: an analysis
\* that raises has raised "Text extraction failed", so one whose text was
\* extracted returns a value, whatever the endpoint and the model's text.
C3_OnlyExtractionErrors ==
  \A p \in Procs : pc[p] = "raised" => failure[p].inner = "Text extraction failed"

\* C4: the parsing of the response text never raises and returns a
\* schema-valid AnalysisResult for every raw text.
C4_RecoverIsValid ==
  fnPc = "recovered" =>
    /\ fnOut.path \in {"direct", "bracket", "degraded"}
    /\ AnalysisValid(fnOut.v)

\* the name, lower-cased, ends in the suffix
HasSuffixIgnoringCase(name, suffix) ==
  /\ Len(name) >= Len(suffix)
  /\ \A i \in 1..Len(suffix) :
       LowerChar(name[Len(name) - Len(suffix) + i]) = suffix[i]

SupportedName(name) ==
  \E suffix \in {<<".","p","d","f">>, <<".","d","o","c","x">>, <<".","t","x","t">>} :
    HasSuffixIgnoringCase(name, suffix)

\* C5: for a filename whose lower-cased form ends in none of .pdf, .docx,
\* .txt the analysis raises the unsupported-format error naming the
\* filename, with no text extracted, no request posted and no later stage
\* run; a filename that ends in one of them in any case is dispatched to
\* its reader and never raises that error.
C5_UnsupportedFormat ==
  \A p \in Procs :
    pc[p] \notin {"idle", "ready"} =>
      IF SupportedName(filename[p])
        THEN failure[p].kind # "Unsupported file format"
        ELSE /\ pc[p] = "raised"
             /\ failure[p].inner = "Text extraction failed"
             /\ failure[p].kind = "Unsupported file format"
             /\ failure[p].filename = filename[p]
             /\ text_content[p] = <<>>
             /\ requests[p] = <<>>
             /\ ran[p] = {"extract"}
             /\ result[p] = PyNone

C5_Witness ==
  \E p \in Procs :
    /\ pc[p] = "raised"
    /\ failure[p].kind = "Unsupported file format"
    /\ filename[p] = <<"d","p","a",".","d","o","c">>
    /\ failure[p].filename = filename[p]

\* the fields of a scorer's result
ComplianceScore(v) == Field(Field(v, K_overall_assessment), K_compliance_score).n

RiskLevelOf(v) == Field(Field(v, K_overall_assessment), K_risk_level).s

Findings(v) == Field(v, K_strengths).a

MissingClauses(v) == Field(v, K_missing_clauses).a

Sections(v) == Field(v, K_section_analysis).a

\* C6: the compliance_score of the scorer's result is in 0..100 for every
\* text, whichever clauses it matches.
C6_ScoreInRange ==
  fnPc = "scored" => ComplianceScore(fnOut.v) \in 0..100

\* every clause matches, so the running score has passed 100
C6_Witness ==
  /\ fnPc = "scored"
  /\ MissingClauses(fnOut.v) = <<>>
  /\ ComplianceScore(fnOut.v) = 100

\* the clauses of key_terms that a text matches
Matched(text) ==
  {i \in 1..Len(key_terms) :
     \E k \in 1..Len(key_terms[i].keywords) :
       Contains(Lower(text), key_terms[i].keywords[k])}

\* the items of seq at the positions of the set S, in order
RECURSIVE Pick(_, _, _)
Pick(seq, S, i) ==
  IF i > Len(seq) THEN <<>>
  ELSE (IF i \in S THEN <<seq[i]>> ELSE <<>>) \o Pick(seq, S, i + 1)

Clamp(n) == IF n < 0 THEN 0 ELSE IF n > 100 THEN 100 ELSE n

\* C7: the scorer puts each of the 9 clauses, in order, in exactly one of
\* findings (matched) and missing_clauses (not matched); with k matched
\* the compliance score is clamp(70 + 5*k - 10*(9-k), 0, 100), 100 when all
\* match and 0 when none does.
C7_FindingsAndScore ==
  fnPc = "scored" =>
    LET S == Matched(fnIn)
        k == Cardinality(S)
        clauses == [i \in 1..Len(key_terms) |-> PyStr(key_terms[i].clause)]
        found == [i \in 1..Len(key_terms) |-> PyStr(FindingText(key_terms[i].clause))]
    IN /\ Len(key_terms) = 9
       /\ Findings(fnOut.v) = Pick(found, S, 1)
       /\ MissingClauses(fnOut.v) = Pick(clauses, (1..9) \ S, 1)
       /\ Len(Findings(fnOut.v)) + Len(MissingClauses(fnOut.v)) = 9
       /\ ComplianceScore(fnOut.v) = Clamp(70 + 5 * k - 10 * (9 - k))
       /\ k = 9 => ComplianceScore(fnOut.v) = 100
       /\ k = 0 => ComplianceScore(fnOut.v) = 0

\* the text of "Data Controller" and "encryption": 2 found, 7 missing
C7_Witness ==
  /\ fnPc = "scored"
  /\ fnIn = JoinLines(UnitsOf(<<1, 5>>))
  /\ Len(Findings(fnOut.v)) = 2
  /\ Len(MissingClauses(fnOut.v)) = 7
  /\ ComplianceScore(fnOut.v) = 10

RiskOf(n) == IF n >= 80 THEN S_low ELSE IF n >= 60 THEN S_medium ELSE S_high

\* C8: the risk_level of the scorer's result is low from 80 on, medium
\* from 60 to 79, high below 60, of the running score and of the returned
\* compliance_score alike; all 9 clauses give low, none gives high.
C8_RiskFollowsScore ==
  fnPc = "scored" =>
    LET k == Len(Findings(fnOut.v)) IN
    /\ RiskLevelOf(fnOut.v) = RiskOf(70 + 5 * k - 10 * (9 - k))
    /\ RiskLevelOf(fnOut.v) = RiskOf(ComplianceScore(fnOut.v))
    /\ k = 9 => RiskLevelOf(fnOut.v) = S_low
    /\ k = 0 => RiskLevelOf(fnOut.v) = S_high

C8_Witness ==
  /\ fnPc = "scored"
  /\ RiskLevelOf(fnOut.v) = S_medium
  /\ ComplianceScore(fnOut.v) = 70

\* the stripped text, and the part of it from the first "{" to the last "}"
Cleaned(text) == Strip(text)

FirstBrace(text) == Find(Cleaned(text), "{")

LastBrace(text) == RFind(Cleaned(text), "}")

Braced(text) == Slice(Cleaned(text), FirstBrace(text), LastBrace(text) + 1)

\* the text is no JSON, and holds a JSON object from its first "{" to its
\* last "}"
EmbedsObject(text) ==
  /\ ~JsonLoads(Cleaned(text)).ok
  /\ FirstBrace(text) >= 0
  /\ LastBrace(text) > FirstBrace(text)
  /\ JsonLoads(Braced(text)).ok

\* with text before the object and after it
InCommentary(text) ==
  /\ EmbedsObject(text)
  /\ FirstBrace(text) > 0
  /\ LastBrace(text) < Len(Cleaned(text)) - 1

\* C9 as claimed: for a JSON object in commentary the second stage returns
\* the parse of the text from the first "{" to the last "}", and no
\* degraded result.
C9_ParsesTheBracedText ==
  (fnPc = "recovered" /\ InCommentary(fnIn)) =>
    /\ fnOut.path = "bracket"
    /\ fnOut.v = JsonLoads(Braced(fnIn)).v

\* two spaces side by side
HasDoubleSpace(s) == \E i \in 1..(Len(s) - 1) : s[i] = " " /\ s[i + 1] = " "

\* C9 as amended: for a text that is no JSON and holds a JSON object from
\* its first "{" to its last "}", the second stage returns the parse of
\* that part with its newlines made spaces and then each two spaces side
\* by side made one, and no degraded result; that is the parse of the part
\* itself when the part holds no two spaces side by side.
C9_ParsesTheNormalizedText ==
  (fnPc = "recovered" /\ EmbedsObject(fnIn)) =>
    /\ fnOut.path = "bracket"
    /\ fnOut.v = JsonLoads(ReplaceDoubleSpaces(ReplaceNewlines(Braced(fnIn)))).v
    /\ ~HasDoubleSpace(Braced(fnIn)) => fnOut.v = JsonLoads(Braced(fnIn)).v

\* an object in commentary whose key changes under the normalization
C9_Witness ==
  /\ fnPc = "recovered"
  /\ InCommentary(fnIn)
  /\ fnOut.path = "bracket"
  /\ fnOut.v # JsonLoads(Braced(fnIn)).v

\* both parses fail, or there is no "{" or no "}" after it
NothingParses(text) ==
  /\ ~JsonLoads(Cleaned(text)).ok
  /\ \/ FirstBrace(text) = -1
     \/ LastBrace(text) < FirstBrace(text)
     \/ ~JsonLoads(ReplaceDoubleSpaces(ReplaceNewlines(Braced(text)))).ok

\* C10: when both parses fail, or no "{" ... "}" pair is found, the value
\* is the fixed degraded result (compliance_score 70, risk_level medium,
\* one section of status unclear with the red flag that the parsing of
\* the AI response failed), and the scorer is not used.
C10_DegradedResult ==
  (fnPc = "recovered" /\ NothingParses(fnIn)) =>
    /\ fnOut.path = "degraded"
    /\ AnalysisValid(fnOut.v)
    /\ ComplianceScore(fnOut.v) = 70
    /\ RiskLevelOf(fnOut.v) = S_medium
    /\ Len(Sections(fnOut.v)) = 1
    /\ Field(Sections(fnOut.v)[1], K_status).s = S_unclear
    /\ Field(Sections(fnOut.v)[1], K_red_flags).a = <<PyStr(S_parsing_failed)>>

\* C11: every returned value names the configured model in
\* metadata.model_used, on the model's paths and on the scorer's alike, and
\* its metadata and playbook_reference are the ones _structure_analysis
\* sets, also when the parsed model output held keys of those names.
C11_AssemblerSetsMetadata ==
  \A p \in Procs :
    pc[p] = "returned" =>
      /\ HasKeys(result[p], {K_metadata, K_playbook_reference})
      /\ Field(Field(result[p], K_metadata), K_model_used) = PyStr(model_name)
      /\ \E timestamp \in Timestamps :
           Field(result[p], K_metadata) = Metadata(text_content[p], timestamp)
      /\ Field(result[p], K_playbook_reference) = PlaybookReference(CreatePlaybook)

\* the model's text had "metadata" and "playbook_reference" of its own
C11_Witness ==
  \E p \in Procs :
    /\ pc[p] = "returned"
    /\ path[p] = "direct"
    /\ reply[p].body.v = DictOf(<< <<K_response, PyStr(MetadataResponse)>> >>)
    /\ Field(Field(result[p], K_metadata), K_model_used) = PyStr(model_name)

\* C12: an analysis posts at most one request, and posts it only after
\* the text was extracted; after a failed request it goes to the scorer
\* with no second request.
C12_OneRequest ==
  \A p \in Procs :
    /\ Len(requests[p]) <= 1
    /\ requests[p] # <<>> =>
         /\ "extract" \in ran[p]
         /\ failure[p].inner # "Text extraction failed"
         /\ \E file_content \in Documents :
              /\ ~ExtractText(file_content, filename[p]).raised
              /\ ExtractText(file_content, filename[p]).text = text_content[p]
         /\ requests[p][1].prompt = Slice(text_content[p], 0, 2000)
    /\ failure[p].inner = "Text extraction failed" => requests[p] = <<>>
    /\ (Finished(p) /\ "model_call" \in ran[p] /\ ModelCallFailed(reply[p])) =>
         /\ Len(requests[p]) = 1
         /\ "score" \in ran[p]
         /\ path[p] = "fallback"

\* a refused request, then the scorer
C12_Witness ==
  \E p \in Procs :
    /\ pc[p] = "returned"
    /\ reply[p].status = 500
    /\ Len(requests[p]) = 1
    /\ path[p] = "fallback"

\* the endpoint answered 200 with a body whose "response" is a text
AnsweredWithText(r) ==
  /\ r.error = "none"
  /\ r.status = 200
  /\ r.body.json_ok
  /\ HasKeys(r.body.v, {K_response})
  /\ Field(r.body.v, K_response).t = "str"

\* C14: the scorer runs only when the model call fails outright: when the
\* endpoint answers 200 with a body that holds a response text, the
\* analysis_result is the parsing's (the parsed value or the degraded
\* result) and the scorer is not run, whatever the text.
C14_ScorerOnlyOnFailure ==
  \A p \in Procs :
    (Finished(p) /\ AnsweredWithText(reply[p])) =>
      /\ path[p] \in {"direct", "bracket", "degraded"}
      /\ "score" \notin ran[p]

\* the section of a scorer's result
SectionOf(v) == Sections(v)[1]

\* C15: the one "Automated Analysis" section of the scorer's result has
\* the score of overall_assessment.compliance_score and the findings of
\* the result's list of findings, for every number of matched clauses.
C15_SectionCarriesScore ==
  fnPc = "scored" =>
    /\ Len(Sections(fnOut.v)) = 1
    /\ Field(SectionOf(fnOut.v), K_section) = PyStr(S_automated_analysis)
    /\ Field(SectionOf(fnOut.v), K_findings).a = Findings(fnOut.v)
    /\ Field(SectionOf(fnOut.v), K_score).n = ComplianceScore(fnOut.v)

\* the text handed to the second json.loads
Normalized(text) ==
  JsonContent(Cleaned(text), FirstBrace(text), LastBrace(text) + 1)

\* C16: the text the second stage hands to the JSON parser holds no
\* newline and no two spaces side by side, for every raw text.
C16_NormalizedText ==
  (fnPc = "recovered" /\ ~JsonLoads(Cleaned(fnIn)).ok /\ FirstBrace(fnIn) >= 0) =>
    /\ \A i \in 1..Len(Normalized(fnIn)) : Normalized(fnIn)[i] # "\n"
    /\ ~HasDoubleSpace(Normalized(fnIn))

\* what an analysis left: where it ended, and what it returned or raised
Outcome(p) ==
  [pc |-> pc[p], text_content |-> text_content[p], requests |-> requests[p],
   path |-> path[p], result |-> result[p], failure |-> failure[p]]

\* the outcome of assembling, on its own, the analysis_result of a text
AssembledAlone(text, analysis, timestamp) ==
  LET structured == StructureAnalysis(analysis.v, text, timestamp, CreatePlaybook) IN
  [pc |-> IF structured.raised THEN "raised" ELSE "returned",
   text_content |-> text,
   requests |-> <<Payload(LimitedText(text))>>,
   path |-> analysis.path,
   result |-> structured.v,
   failure |-> IF structured.raised
                 THEN AnalysisError([stage |-> "", kind |-> "TypeError",
                                     filename |-> <<>>])
                 ELSE NoFailure]

\* the outcome of analyze_document called on its own with the file, when
\* the endpoint does r and the clock reads timestamp
AnalysedAlone(name, file_content, r, timestamp) ==
  LET extracted == ExtractText(file_content, name) IN
  IF extracted.raised
    THEN [pc |-> "raised", text_content |-> <<>>, requests |-> <<>>,
          path |-> "none", result |-> PyNone,
          failure |-> AnalysisError(extracted.error)]
    ELSE AssembledAlone(extracted.text,
                        PerformAiAnalysis(CallOllamaApi(r), extracted.text),
                        timestamp)

\* C13: two analyses that run together do not influence each other: under
\* every interleaving each ends as it would have on its own with its
\* file, its reply and its clock reading, and the shared playbook stays
\* as it was created.
C13_AnalysesAreIndependent ==
  /\ playbook = CreatePlaybook
  /\ \A p \in Procs :
       Finished(p) =>
         \E file_content \in Documents, timestamp \in Timestamps :
           /\ ExtractText(file_content, filename[p]).text = text_content[p]
           /\ Outcome(p) = AnalysedAlone(filename[p], file_content, reply[p], timestamp)

\* both returned, on different texts and by different paths
C13_Witness ==
  /\ pc[1] = "returned"
  /\ pc[2] = "returned"
  /\ text_content[1] # text_content[2]
  /\ path[1] = "fallback"
  /\ path[2] = "direct"
  /\ result[1] # result[2]

=============================================================================
